---- MODULE Spec2Model ----
(***************************************************************************)
(* Model of the FeatureProbe Go server SDK: the EventRecorder (event.go)   *)
(* with its background flush loop, and the client facade (featureprobe.go) *)
(* with its typed accessors.                                               *)
(***************************************************************************)
EXTENDS Integers, Sequences, FiniteSets, TLC

(* ------------------------------ bounds --------------------------------- *)
\* A run makes at most MaxCalls calls of the recorder's API (Start, Stop,
\* RecordAccess), in any mix and with any overlap.
MaxCalls == 4

\* The pending list of a client holds at most MaxPending events.
MaxPending == 1
\* time.Now(), in milliseconds, is within 1..MaxTime.
MaxTime == 2
\* A drained batch holds at most MaxBatch events.
MaxBatch == 3
\* NewFeatureProbe is called with at most MaxOptions options.
MaxOptions == 2
\* At most MaxStops of the calls of a run are Stop calls.
MaxStops == 2
\* The number of API calls of a run that is followed under fair scheduling.
MaxLiveCalls == 3

\* The cells a call can put the values in that it returns pointers to.
Cells == {1, 2}

\* The s-th Stop call and the r-th RecordAccess call of a run.
Stoppers == 1..MaxStops
Recorders == 1..MaxCalls

VARIABLES
  \* EventRecorder fields (event.go:12-25); tickC is the ticker's channel,
  \* ticker tells whether the ticker was made
  incomingEvents, mu, wg, startOnce, stopOnce, stopChan, ticker, eventsUrl, tickC,
  \* goroutines: Start() callers, Stop() callers, RecordAccess() callers, loop
  startCalls, startAdded, stopPc, recPc, recTmp, loopPc, loopBranch, events,
  \* observations of the run (history); panicked is the message of the panic
  \* that ended the process, or "none"
  appended, drained, posts, lastPost, failedFlushes, panicked, closeCount, nLoops, flushesAfterStop,
  pendingAtObserve, finalBatch, stopObs

\* The client facade: its Repo, whether its Recorder is set, and the last
\* accessor call with what it returned.
VARIABLES Repo, hasRecorder, call

\* The rest of the client: how it was built, its Config, its Syncer, the error
\* NewFeatureProbe returned, how many steps of Close() have been taken, and
\* the steps Close() performed, each with the pending list it found.
VARIABLES built, Config, Syncer, newErr, closePc, closeLog

\* One drained batch, the Access built from it, and the toolchain's semantics
\* of the range variable of buildCounters (one variable for the whole loop, or
\* one per iteration).
VARIABLES batch, access, loopVarShared

rvars == <<incomingEvents, mu, wg, startOnce, stopOnce, stopChan, ticker, eventsUrl, tickC,
           startCalls, startAdded, stopPc, recPc, recTmp, loopPc,
           loopBranch, events, appended, drained, posts, lastPost, failedFlushes, panicked, closeCount, nLoops,
           flushesAfterStop, pendingAtObserve, finalBatch, stopObs>>

fvars == <<Repo, hasRecorder, call, built, Config, Syncer, newErr, closePc, closeLog>>
avars == <<batch, access, loopVarShared>>
vars == <<rvars, fvars, avars>>

(* ------------------------------ helpers -------------------------------- *)
Range(s) == {s[i] : i \in 1..Len(s)}

RECURSIVE Flatten(_)
Flatten(ss) == IF ss = <<>> THEN <<>> ELSE Head(ss) \o Flatten(Tail(ss))

\* A Go pointer: an address and the value stored there; address 0 is nil.
Nil == [addr |-> 0, val |-> 0]

\* A Go interface{} value: its dynamic type and a number standing for it.
NilValue == [kind |-> "nil", v |-> 0]


(* ------------------- aggregation (event.go:120-173) -------------------- *)
\* The map key of buildCounters (line 164). Index and Version are pointers, and
\* Go compares pointers by address.
VariationOf(event) ==
  [Key |-> event.Key, Version |-> event.Version, Index |-> event.Index]

\* Lines 168-170: c is a copy of the map entry; c.Count += 1 changes the copy
\* and the entry in the map stays as it was.
CountAgain(counters, v) == counters

\* Lines 165-170 for one event.
CountEvent(counters, event) ==
  LET v == VariationOf(event) IN
  IF v \in DOMAIN counters
    THEN CountAgain(counters, v)
    ELSE counters @@ (v :> [Count |-> 1, Value |-> event.Value])

RECURSIVE CountersOf(_, _)
CountersOf(evs, counters) ==
  IF evs = <<>> THEN counters
  ELSE CountersOf(Tail(evs), CountEvent(counters, Head(evs)))

\* Lines 157-162. startTime and endTime are pointers to the range variable
\* event. When the toolchain gives the loop one variable for all iterations
\* (shared), both alias it and read the current event's Time; otherwise each
\* points to the copy of the iteration that set it. p.set is "not nil".
RECURSIVE TimesOf(_, _, _, _)
TimesOf(evs, st, en, shared) ==
  IF evs = <<>> THEN [st |-> st, en |-> en]
  ELSE LET t == Head(evs).Time
           stv == IF shared THEN t ELSE st.t
           env == IF shared THEN t ELSE en.t
           st2 == IF ~st.set \/ stv < t THEN [set |-> TRUE, t |-> t] ELSE st
           en2 == IF ~en.set \/ env > t THEN [set |-> TRUE, t |-> t] ELSE en
       IN TimesOf(Tail(evs), st2, en2, shared)

\* buildCounters (lines 151-173); events is not empty (doFlush, line 101).
buildCounters(evs, shared) ==
  LET ts == TimesOf(evs, [set |-> FALSE, t |-> 0], [set |-> FALSE, t |-> 0], shared)
      last == evs[Len(evs)].Time
  IN [counters |-> CountersOf(evs, <<>>),
      startTime |-> IF shared THEN last ELSE ts.st.t,
      endTime |-> IF shared THEN last ELSE ts.en.t]

\* buildAccess (lines 126-149). Counters[k] is the list built by ranging over
\* the map, whose order Go leaves unspecified: it is kept as the set of its
\* members.
buildAccess(evs, shared) ==
  LET b == buildCounters(evs, shared)
      keys == {k.Key : k \in DOMAIN b.counters}
  IN [StartTime |-> b.startTime,
      EndTime |-> b.endTime,
      Counters |-> [key \in keys |->
                     {[Index |-> k.Index, Version |-> k.Version,
                       Count |-> b.counters[k].Count, Value |-> b.counters[k].Value]
                        : k \in {k2 \in DOMAIN b.counters : k2.Key = key}}]]

\* buildPackedData (lines 120-124).
buildPackedData(evs, shared) ==
  <<[Access |-> buildAccess(evs, shared), Events |-> evs]>>

(* --------------------- EventRecorder (event.go) ------------------------ *)
\* The AccessEvent handed in by the r-th RecordAccess call of a run; Time tells
\* the events apart.
NewAccessEvent(r) ==
  [Time |-> r, Key |-> "toggle", Value |-> [kind |-> "bool", v |-> 1],
   Index |-> Nil, Version |-> Nil, Reason |-> "default"]

\* sync.Mutex: Lock() proceeds only when no goroutine holds the mutex.
MuLockableAlways == TRUE
MuLockable == mu = "none"

\* doFlush, line 100: e.mu.Unlock() right after the swap, before the batch is
\* looked at, packed or sent.
MuUnlockDeferred == "loop"
MuUnlock == "none"

\* sync.WaitGroup: Wait() returns at once when the counter is zero, and blocks
\* otherwise until Done() brings it to zero.
WgWaitSkipped == TRUE
WgWait == wg = 0

\* doFlush, lines 107-110 and 115-117: on an error the message is printed and
\* doFlush returns; the drained batch is a local variable that is dropped, and
\* the pending list is not touched.
AfterFailureRequeued(pending, dropped) == dropped \o pending
AfterFailure(pending, dropped) == pending

\* doFlush, line 101: len(events) == 0.
NothingDrainedNever(evs) == FALSE
NothingDrained(evs) == evs = <<>>


\* What a Stop call found when it was made (whether Start had been called,
\* whether the loop was outside doFlush and had not taken the stop branch, the
\* length of the pending list), whether Start had been called when it reached
\* wg.Wait() (waitStarted) and, from the call to its return, the delivery
\* attempts made (dPosts) and whether no event was appended (quiet).
NoObs ==
  [started |-> FALSE, loopIdle |-> TRUE, pending |-> 0, waitStarted |-> FALSE,
   dPosts |-> 0, quiet |-> TRUE]

\* The number of API calls made so far.
Calls ==
  startCalls + Cardinality({s \in Stoppers : stopPc[s] # "idle"})
             + Cardinality({r \in Recorders : recPc[r] # "idle"})

\* The Stop calls that have not returned: past stopOnce.Do and before
\* wg.Wait(), blocked in wg.Wait(), or woken by the Done() that brought the
\* counter to zero.
Waiting == {s \in Stoppers : stopPc[s] \in {"closed", "waiting", "woken"}}

\* The URLs a recorder is made for: one a request can be sent to, and one
\* that http.NewRequest refuses.
EventsUrls == {"http://host/api/events", "::not a url/api/events"}

\* NewEventRecorder (lines 65-75): the events URL, an empty pending list, an
\* open stop channel, nothing started.
NewEventRecorder(url) ==
  /\ eventsUrl = url
  /\ incomingEvents = <<>>
  /\ mu = "none"
  /\ wg = 0
  /\ startOnce = FALSE
  /\ stopOnce = FALSE
  /\ stopChan = "open"
  /\ ticker = FALSE
  /\ tickC = 0
  /\ startCalls = 0
  /\ startAdded = 0
  /\ stopPc = [s \in Stoppers |-> "idle"]
  /\ recPc = [r \in Recorders |-> "idle"]
  /\ recTmp = [r \in Recorders |-> <<>>]
  /\ loopPc = "none"
  /\ loopBranch = "none"
  /\ events = <<>>
  /\ appended = <<>>
  /\ drained = <<>>
  /\ posts = <<>>
  /\ lastPost = "none"
  /\ failedFlushes = {}
  /\ panicked = "none"
  /\ closeCount = 0
  /\ nLoops = 0
  /\ flushesAfterStop = 0
  /\ pendingAtObserve = <<>>
  /\ finalBatch = <<>>
  /\ stopObs = [s \in Stoppers |-> NoObs]

\* A recorder just made, for one of the URLs.
RecorderInit == \E url \in EventsUrls : NewEventRecorder(url)

\* No recorder is in use.
RecorderIdle == NewEventRecorder("")

\* An unrecovered panic ends the process: no goroutine takes a step after it.
Alive == panicked = "none"

\* sync.WaitGroup, Add: a positive Add that finds the counter at zero with
\* waiters still registered panics. That is the case while the Done() that
\* brought the counter to zero has not yet released the waiters.
AddMisuse == "sync: WaitGroup misuse: Add called concurrently with Wait"
AddPanics == loopPc = "release"

\* sync.WaitGroup, Wait: a released Wait() looks at the counter again and
\* panics when an Add has raised it since the release.
WaitReused == "sync: WaitGroup is reused before previous Wait has returned"
WaitPanics == wg # 0

\* Start(), line 78: e.wg.Add(1), on every call.
StartAdd ==
  /\ Alive
  /\ Calls < MaxCalls
  /\ startCalls' = startCalls + 1
  /\ wg' = wg + 1
  /\ IF AddPanics
       THEN panicked' = AddMisuse /\ startAdded' = startAdded
       ELSE panicked' = panicked /\ startAdded' = startAdded + 1
  /\ UNCHANGED <<fvars, avars, incomingEvents, mu, startOnce, stopOnce, stopChan, ticker, eventsUrl,
                 tickC, stopPc, recPc, recTmp, loopPc, loopBranch, events,
                 appended, drained, posts, lastPost, failedFlushes, closeCount, nLoops,
                 flushesAfterStop, pendingAtObserve, finalBatch, stopObs>>

\* Start(), lines 79-93: startOnce.Do creates the ticker and launches the loop
\* on the first call and does nothing on a later one.
StartOnceDo ==
  /\ Alive
  /\ startAdded > 0
  /\ startAdded' = startAdded - 1
  /\ IF startOnce
       THEN UNCHANGED <<fvars, avars, startOnce, ticker, loopPc, nLoops>>
       ELSE /\ startOnce' = TRUE
            /\ ticker' = TRUE
            /\ loopPc' = "select"
            /\ nLoops' = nLoops + 1
  /\ UNCHANGED <<fvars, avars, incomingEvents, mu, wg, stopOnce, stopChan, eventsUrl, tickC,
                 startCalls, stopPc, recPc, recTmp, loopBranch, events,
                 appended, drained, posts, lastPost, failedFlushes, panicked, closeCount,
                 flushesAfterStop, pendingAtObserve, finalBatch, stopObs>>

\* time.Ticker: a tick is put in the 1-buffered channel ticker.C; a tick that
\* finds the buffer full is dropped. The ticker is never stopped.
Tick ==
  /\ Alive
  /\ ticker
  /\ tickC = 0
  /\ tickC' = 1
  /\ UNCHANGED <<fvars, avars, incomingEvents, mu, wg, startOnce, stopOnce, stopChan,
                 ticker, eventsUrl, startCalls, startAdded, stopPc, recPc, recTmp,
                 loopPc, loopBranch, events, appended, drained, posts,
                 lastPost, failedFlushes, panicked, closeCount, nLoops, flushesAfterStop,
                 pendingAtObserve, finalBatch, stopObs>>

\* The loop is at its select (line 83): it is one goroutine, and it calls
\* doFlush (lines 85 and 89) and goes on when doFlush has returned.
LoopReadyWhilePosting == loopPc \in {"select", "post"}
LoopReady == loopPc = "select"

\* Line 85: on the stop branch the loop calls doFlush before wg.Done and
\* return.
StopBranchPcNoFlush == "done"
StopBranchPc == "flush"

\* The loop's select, case <-e.stopChan (line 84).
LoopSelectStop ==
  /\ Alive
  /\ LoopReady
  /\ stopChan = "closed"
  /\ loopPc' = StopBranchPc
  /\ loopBranch' = "stop"
  /\ flushesAfterStop' = flushesAfterStop + 1
  /\ pendingAtObserve' = incomingEvents
  /\ UNCHANGED <<fvars, avars, incomingEvents, mu, wg, startOnce, stopOnce, stopChan,
                 ticker, eventsUrl, tickC, startCalls, startAdded, stopPc, recPc,
                 recTmp, events, appended, drained, posts, lastPost, failedFlushes, panicked,
                 closeCount, nLoops, finalBatch, stopObs>>

\* The loop's select, case <-e.ticker.C (line 88).
LoopSelectTick ==
  /\ Alive
  /\ LoopReady
  /\ tickC = 1
  /\ tickC' = 0
  /\ loopPc' = "flush"
  /\ loopBranch' = "tick"
  /\ UNCHANGED <<fvars, avars, incomingEvents, mu, wg, startOnce, stopOnce, stopChan,
                 ticker, eventsUrl, startCalls, startAdded, stopPc, recPc, recTmp,
                 events, appended, drained, posts, lastPost, failedFlushes, panicked, closeCount,
                 nLoops, flushesAfterStop, pendingAtObserve, finalBatch,
                 stopObs>>

\* The Stop calls blocked in wg.Wait(): the waiters of the WaitGroup.
Blocked == {s \in Stoppers : stopPc[s] = "waiting"}

\* Where the loop is when doFlush has returned: before e.wg.Done() (line 86)
\* on the stop branch, at the select of the next iteration on the tick branch.
AfterFlushPc == IF loopBranch = "stop" THEN "wgdone" ELSE "select"

\* doFlush, lines 97-103: lock, swap the pending list for an empty one, unlock;
\* return when nothing was pending.
FlushSwap ==
  /\ Alive
  /\ loopPc = "flush"
  /\ MuLockable
  /\ events' = incomingEvents
  /\ incomingEvents' = <<>>
  /\ drained' = IF incomingEvents = <<>> THEN drained ELSE Append(drained, incomingEvents)
  /\ finalBatch' = IF loopBranch = "stop" THEN incomingEvents ELSE finalBatch
  /\ IF NothingDrained(incomingEvents)
       THEN loopPc' = AfterFlushPc
       ELSE loopPc' = "post"
  /\ mu' = MuUnlock
  /\ UNCHANGED <<fvars, avars, wg, startOnce, stopOnce, stopChan, ticker, eventsUrl, tickC,
                 startCalls, startAdded, recPc, recTmp, loopBranch, appended,
                 posts, lastPost, failedFlushes, panicked, closeCount, nLoops, flushesAfterStop,
                 pendingAtObserve, stopPc, stopObs>>

\* Lines 86-87: after wg.Done() the loop returns. When Done() has brought the
\* counter to zero with waiters registered, it releases them (WgRelease)
\* before it returns.
AfterDonePcNoReturn == "select"
AfterDonePc == IF wg - 1 = 0 /\ Blocked # {} THEN "release" ELSE "done"

\* e.wg.Done(), line 86: the statement after doFlush on the stop branch. It
\* lowers the counter.
WgDone ==
  /\ Alive
  /\ loopPc = "wgdone"
  /\ wg' = wg - 1
  /\ loopPc' = AfterDonePc
  /\ UNCHANGED <<fvars, avars, incomingEvents, mu, startOnce, stopOnce, stopChan,
                 ticker, eventsUrl, tickC, startCalls, startAdded, stopPc, recPc, recTmp,
                 loopBranch, events, appended, drained, posts,
                 lastPost, failedFlushes, panicked, closeCount, nLoops, flushesAfterStop,
                 pendingAtObserve, finalBatch, stopObs>>

\* wg.Done(), line 86, after it has brought the counter to zero: the waiters
\* are released, and the loop returns (line 87).
WgRelease ==
  /\ Alive
  /\ loopPc = "release"
  /\ loopPc' = "done"
  /\ stopPc' = [s \in Stoppers |-> IF stopPc[s] = "waiting" THEN "woken" ELSE stopPc[s]]
  /\ UNCHANGED <<fvars, avars, incomingEvents, mu, wg, startOnce, stopOnce, stopChan,
                 ticker, eventsUrl, tickC, startCalls, startAdded, recPc, recTmp,
                 loopBranch, events, appended, drained, posts,
                 lastPost, failedFlushes, panicked, closeCount, nLoops, flushesAfterStop,
                 pendingAtObserve, finalBatch, stopObs>>

Char(s, i) == SubSeq(s, i, i)
Letters ==
  {"a", "b", "c", "d", "e", "f", "g", "h", "i", "j", "k", "l", "m", "n", "o",
   "p", "q", "r", "s", "t", "u", "v", "w", "x", "y", "z",
   "A", "B", "C", "D", "E", "F", "G", "H", "I", "J", "K", "L", "M", "N", "O",
   "P", "Q", "R", "S", "T", "U", "V", "W", "X", "Y", "Z"}
SchemeTail == {"0", "1", "2", "3", "4", "5", "6", "7", "8", "9", "+", "-", "."}

\* net/url, getScheme: the index of the first character that cannot go on a
\* scheme (a letter can, and after the first character a digit, "+", "-" and
\* "." can), or 0 when there is none.
SchemeEnd(rawURL) ==
  LET stops == {i \in 1..Len(rawURL) :
                  ~ \/ Char(rawURL, i) \in Letters
                    \/ i > 1 /\ Char(rawURL, i) \in SchemeTail}
  IN IF stops = {} THEN 0 ELSE CHOOSE i \in stops : \A j \in stops : i <= j

\* The URL has a scheme: its first such character is a colon that is not the
\* first character.
HasScheme(rawURL) ==
  SchemeEnd(rawURL) > 1 /\ Char(rawURL, SchemeEnd(rawURL)) = ":"

\* The first path segment of a URL that has no scheme.
FirstSegment(rawURL) ==
  LET slashes == {i \in 1..Len(rawURL) : Char(rawURL, i) = "/"}
  IN IF slashes = {} THEN rawURL
     ELSE SubSeq(rawURL, 1, (CHOOSE i \in slashes : \A j \in slashes : i <= j) - 1)

\* http.NewRequest (line 106) fails when url.Parse refuses the URL: one that
\* begins with a colon ("missing protocol scheme"), and one without a scheme
\* whose first path segment has a colon. (The URLs with a scheme that are
\* used here have a host that url.Parse accepts.)
NewRequestFails(rawURL) ==
  \/ SchemeEnd(rawURL) = 1 /\ Char(rawURL, 1) = ":"
  \/ /\ ~HasScheme(rawURL)
     /\ Len(rawURL) > 0 /\ Char(rawURL, 1) # "/"
     /\ \E i \in 1..Len(FirstSegment(rawURL)) : Char(FirstSegment(rawURL), i) = ":"

\* httpClient.Do (line 114) returns when the call has succeeded, failed or
\* timed out; for a URL whose scheme is not http or https it fails without a
\* call ("unsupported protocol scheme").
DoResults(rawURL) ==
  IF HasScheme(rawURL) /\ SubSeq(rawURL, 1, SchemeEnd(rawURL) - 1) \in {"http", "https"}
    THEN {"ok", "failed"}
    ELSE {"failed"}

\* doFlush, lines 104-118, for the drained batch. A request that cannot be
\* built (lines 107-110) is printed, and doFlush returns with no delivery
\* attempt. Otherwise there is one delivery attempt: the request is sent
\* with httpClient.Do, and a call that fails (lines 115-117) is only printed.
\* posts are the batches of the attempts, failedFlushes notes which of the
\* drained batches met one of the two errors, and lastPost is how the last
\* doFlush that drained a batch ended.
FlushPost ==
  /\ Alive
  /\ loopPc = "post"
  /\ IF NewRequestFails(eventsUrl)
       THEN /\ lastPost' = "unbuilt"
            /\ UNCHANGED <<posts, stopObs>>
       ELSE /\ lastPost' \in DoResults(eventsUrl)
            /\ posts' = Append(posts, events)
            /\ stopObs' = [s \in Stoppers |->
                            IF s \in Waiting
                              THEN [stopObs[s] EXCEPT !.dPosts = @ + 1]
                              ELSE stopObs[s]]
  /\ failedFlushes' = IF lastPost' # "ok" THEN failedFlushes \cup {Len(drained)}
                                          ELSE failedFlushes
  /\ incomingEvents' = IF lastPost' # "ok"
                         THEN AfterFailure(incomingEvents, events)
                         ELSE incomingEvents
  /\ loopPc' = AfterFlushPc
  /\ UNCHANGED <<fvars, avars, mu, wg, startOnce, stopOnce, stopChan, ticker, eventsUrl,
                 tickC, startCalls, startAdded, recPc, recTmp, loopBranch,
                 events, appended, drained, panicked, closeCount, nLoops,
                 flushesAfterStop, pendingAtObserve, finalBatch, stopPc>>

\* RecordAccess, lines 176-177: e.mu.Lock(), then append reads the pending list.
RecordLock(r) ==
  /\ Alive
  /\ recPc[r] = "idle"
  /\ \A q \in Recorders : q < r => recPc[q] # "idle"
  /\ Calls < MaxCalls
  /\ MuLockable
  /\ mu' = "rec"
  /\ recTmp' = [recTmp EXCEPT ![r] = incomingEvents]
  /\ recPc' = [recPc EXCEPT ![r] = "locked"]
  /\ UNCHANGED <<fvars, avars, incomingEvents, wg, startOnce, stopOnce, stopChan, ticker, eventsUrl,
                 tickC, startCalls, startAdded, stopPc, loopPc, loopBranch,
                 events, appended, drained, posts, lastPost, failedFlushes, panicked, closeCount,
                 nLoops, flushesAfterStop, pendingAtObserve, finalBatch,
                 stopObs>>

\* RecordAccess, lines 177-178: the list with the event appended is stored in
\* e.incomingEvents, and the mutex is released.
RecordWrite(r) ==
  /\ Alive
  /\ recPc[r] = "locked"
  /\ incomingEvents' = Append(recTmp[r], NewAccessEvent(r))
  /\ appended' = Append(appended, NewAccessEvent(r))
  /\ mu' = "none"
  /\ recTmp' = [recTmp EXCEPT ![r] = <<>>]
  /\ recPc' = [recPc EXCEPT ![r] = "done"]
  /\ stopObs' = [s \in Stoppers |->
                  IF s \in Waiting THEN [stopObs[s] EXCEPT !.quiet = FALSE]
                                   ELSE stopObs[s]]
  /\ UNCHANGED <<fvars, avars, wg, startOnce, stopOnce, stopChan, ticker, eventsUrl, tickC,
                 startCalls, startAdded, stopPc, loopPc, loopBranch, events,
                 drained, posts, lastPost, failedFlushes, panicked, closeCount, nLoops,
                 flushesAfterStop, pendingAtObserve, finalBatch>>

\* Stop(), line 184: close(e.stopChan), in whatever state the recorder is: Stop
\* does not look at whether Start was ever called.
StopChanAfterCloseIfStarted == IF startCalls > 0 THEN "closed" ELSE stopChan
StopChanAfterClose == "closed"

\* Stop(), lines 182-186: stopChan is never nil after NewEventRecorder, and
\* stopOnce.Do closes it on the first call only. stopObs[s] notes what the
\* s-th Stop call of the run found.
StopClose(s) ==
  /\ Alive
  /\ stopPc[s] = "idle"
  /\ \A q \in Stoppers : q < s => stopPc[q] # "idle"
  /\ Calls < MaxCalls
  /\ stopPc' = [stopPc EXCEPT ![s] = "closed"]
  /\ IF stopOnce
       THEN UNCHANGED <<stopOnce, stopChan, closeCount>>
       ELSE /\ stopOnce' = TRUE
            /\ stopChan' = StopChanAfterClose
            /\ closeCount' = closeCount + 1
  /\ stopObs' = [stopObs EXCEPT ![s] =
                   [started |-> startCalls >= 1,
                    loopIdle |-> loopPc \in {"none", "select"},
                    pending |-> Len(incomingEvents), waitStarted |-> FALSE,
                    dPosts |-> 0, quiet |-> TRUE]]
  /\ UNCHANGED <<incomingEvents, mu, wg, startOnce, ticker, eventsUrl, tickC,
                 startCalls, startAdded, recPc, recTmp, loopPc, loopBranch,
                 events, appended, drained, posts, lastPost, failedFlushes, panicked, nLoops,
                 flushesAfterStop, pendingAtObserve, finalBatch>>

\* Stop(), line 187: e.wg.Wait() is reached. It returns at once when the
\* counter is zero, and registers the caller as a waiter and blocks otherwise.
StopWait(s) ==
  /\ Alive
  /\ stopPc[s] = "closed"
  /\ stopPc' = [stopPc EXCEPT ![s] = IF WgWait THEN "returned" ELSE "waiting"]
  /\ stopObs' = [stopObs EXCEPT ![s].waitStarted = startCalls >= 1]
  /\ UNCHANGED <<incomingEvents, mu, wg, startOnce, stopOnce, stopChan, ticker, eventsUrl,
                 tickC, startCalls, startAdded, recPc, recTmp, loopPc, loopBranch,
                 events, appended, drained, posts, lastPost, failedFlushes, panicked,
                 closeCount, nLoops, flushesAfterStop, pendingAtObserve, finalBatch>>

\* A Stop() call made on the recorder by itself.
StopCall(s) == StopClose(s) /\ UNCHANGED <<fvars, avars>>
StopCallWait(s) == StopWait(s) /\ UNCHANGED <<fvars, avars>>

\* Stop(), line 187: the blocked e.wg.Wait() has been released. It returns,
\* or panics when the counter has been raised since.
StopReturn(s) ==
  /\ Alive
  /\ stopPc[s] = "woken"
  /\ IF WaitPanics
       THEN /\ stopPc' = [stopPc EXCEPT ![s] = "panicked"]
            /\ panicked' = WaitReused
       ELSE /\ stopPc' = [stopPc EXCEPT ![s] = "returned"]
            /\ panicked' = panicked
  /\ UNCHANGED <<fvars, avars, incomingEvents, mu, wg, startOnce, stopOnce, stopChan,
                 ticker, eventsUrl, tickC, startCalls, startAdded, recPc, recTmp,
                 loopPc, loopBranch, events, appended, drained, posts,
                 lastPost, failedFlushes, closeCount, nLoops, flushesAfterStop,
                 pendingAtObserve, finalBatch, stopObs>>

\* Stop(), line 187: the Done() that released the waiters gave each of them
\* a permit of the WaitGroup's semaphore, which hands nothing over: a
\* Wait() that registered after the release (a later Start had raised the
\* counter) can take the permit before the released waiter runs. It finds the
\* counter raised and panics; the released waiter stays blocked.
StopReturnLate(s) ==
  /\ Alive
  /\ stopPc[s] = "waiting"
  /\ \E q \in Stoppers :
       /\ stopPc[q] = "woken"
       /\ stopPc' = [stopPc EXCEPT ![s] = IF WaitPanics THEN "panicked" ELSE "returned",
                                   ![q] = "waiting"]
  /\ panicked' = IF WaitPanics THEN WaitReused ELSE panicked
  /\ UNCHANGED <<fvars, avars, incomingEvents, mu, wg, startOnce, stopOnce, stopChan,
                 ticker, eventsUrl, tickC, startCalls, startAdded, recPc, recTmp,
                 loopPc, loopBranch, events, appended, drained, posts,
                 lastPost, failedFlushes, closeCount, nLoops, flushesAfterStop,
                 pendingAtObserve, finalBatch, stopObs>>

RecorderNext ==
  \/ StartAdd
  \/ StartOnceDo
  \/ Tick
  \/ LoopSelectStop
  \/ LoopSelectTick
  \/ FlushSwap
  \/ FlushPost
  \/ WgDone
  \/ WgRelease
  \/ \E r \in Recorders : RecordLock(r) \/ RecordWrite(r)
  \/ \E s \in Stoppers : StopCall(s) \/ StopCallWait(s) \/ StopReturn(s)
  \/ \E s \in Stoppers : StopReturnLate(s)

(* ------------------ client facade (featureprobe.go) -------------------- *)
\* The source of the facade is the second half of src/featureprobe_test.go
\* (from line 450). Toggle.evalDetail and the Repository type are not among
\* the source files; they follow the data model and the algorithm of the
\* specification.

BoolV(b) == [kind |-> "bool", v |-> IF b THEN 1 ELSE 0]
StrV(n) == [kind |-> "string", v |-> n]
FloatV(n) == [kind |-> "float64", v |-> n]
IntV(n) == [kind |-> "int", v |-> n]
JsonV(n) == [kind |-> "json", v |-> n]

\* A pointer to a cell holding val; addr numbers the cells that hold val.
Ptr(a, val) == [addr |-> a, val |-> val]

\* strings.Contains: substr occurs within s.
Contains(s, substr) ==
  \E i \in 1..(Len(s) - Len(substr) + 1) : SubSeq(s, i, i + Len(substr) - 1) = substr

Users == {"u1", "u2"}

\* A toggle with a fixed-index default serve, one rule for one user, and a
\* fixed-index disabled serve.
Toggle(enabled, version, disabledSel, defaultSel, rules, variations) ==
  [Enabled |-> enabled, Version |-> version, DisabledServe |-> disabledSel,
   DefaultServe |-> defaultSel, Rules |-> rules, Variations |-> variations]

\* newToggleForTest (lines 570-582): one variation, every serve selects it.
newToggleForTest(value) == Toggle(TRUE, 0, 0, 0, <<>>, <<value>>)

\* A nil *Repository (Repo: nil in TestEvalNilRepo).
NilRepo == [isNil |-> TRUE, Toggles |-> <<>>]

\* A snapshot with toggles of every kind of variation, in the shape of the
\* fixtures of the tests (lines 142-200, repo.json).
FixtureRepo ==
  [isNil |-> FALSE,
   Toggles |->
     [k \in {"bool_toggle", "string_toggle", "number_toggle", "json_toggle",
             "overflow_toggle", "disabled_toggle"} |->
        CASE k = "bool_toggle" ->
               Toggle(TRUE, 1, 0, 1, <<[users |-> {"u1"}, select |-> 0]>>,
                      <<BoolV(TRUE), BoolV(FALSE)>>)
          [] k = "string_toggle" ->
               Toggle(TRUE, 2, 0, 1, <<>>, <<StrV(1), StrV(2)>>)
          [] k = "number_toggle" ->
               Toggle(TRUE, 1, 0, 1, <<>>, <<FloatV(1), FloatV(2)>>)
          [] k = "json_toggle" ->
               Toggle(TRUE, 1, 0, 0, <<>>, <<JsonV(1), NilValue>>)
          [] k = "overflow_toggle" ->
               Toggle(TRUE, 1, 2, 2, <<[users |-> {"u2"}, select |-> 3]>>,
                      <<BoolV(TRUE), BoolV(FALSE)>>)
          [] k = "disabled_toggle" ->
               Toggle(FALSE, 3, 1, 0, <<>>, <<StrV(1), FloatV(2)>>)]]

\* NewFeatureProbeForTest (lines 584-593) for the map of
\* TestUnitTestingForCaller (lines 236-241).
TestRepo ==
  [isNil |-> FALSE,
   Toggles |->
     [k \in {"toggle0", "toggle1", "toggle2", "toggle3", "toggle4"} |->
        CASE k = "toggle0" -> newToggleForTest(IntV(0))
          [] k = "toggle1" -> newToggleForTest(FloatV(1))
          [] k = "toggle2" -> newToggleForTest(BoolV(TRUE))
          [] k = "toggle3" -> newToggleForTest(StrV(3))
          [] k = "toggle4" -> newToggleForTest(JsonV(4))]]

\* Repository{} as NewFeatureProbe makes it (line 538): no toggles.
EmptyRepo == [isNil |-> FALSE, Toggles |-> <<>>]

Repos == {NilRepo, EmptyRepo, FixtureRepo, TestRepo}

\* The first rule of rules, from position i on, whose conditions hold for user;
\* 0 when there is none.
RECURSIVE FirstMatch(_, _, _)
FirstMatch(rules, user, i) ==
  IF i > Len(rules) THEN 0
  ELSE IF user \in rules[i].users THEN i
  ELSE FirstMatch(rules, user, i + 1)

\* Toggle.evalDetail, after section 4.1 of the specification: the disabled
\* serve, else the first matching rule, else the default serve; an index out
\* of the variations is an error whose detail has no value and no variation
\* index and a reason that contains "overflow". a is the cell in which the call
\* puts the index and version it returns pointers to.
evalDetail(t, user, a) ==
  LET m == FirstMatch(t.Rules, user, 1)
      sel == IF ~t.Enabled THEN t.DisabledServe
             ELSE IF m > 0 THEN t.Rules[m].select
             ELSE t.DefaultServe
      ruleIndex == IF t.Enabled /\ m > 0 THEN Ptr(a, m - 1) ELSE Nil
      why == IF ~t.Enabled THEN "disabled"
             ELSE IF m > 0 THEN "rule matched"
             ELSE "default"
  IN IF sel >= Len(t.Variations)
       THEN [err |-> TRUE, Value |-> NilValue, VariationIndex |-> Nil,
             RuleIndex |-> ruleIndex, Version |-> Ptr(a, t.Version),
             Reason |-> why \o ", variation index overflow"]
       ELSE [err |-> FALSE, Value |-> t.Variations[sel + 1],
             VariationIndex |-> Ptr(a, sel), RuleIndex |-> ruleIndex,
             Version |-> Ptr(a, t.Version), Reason |-> why]

\* genericDetail, lines 638-644: is the toggle looked up at all?
ToggleFound(toggle) == ~Repo.isNil /\ toggle \in DOMAIN Repo.Toggles

\* genericDetail, line 656: fp.Recorder != nil.
RecorderUnset == ~hasRecorder
RecorderSet == hasRecorder

\* genericDetail with the evaluated value used whether or not evalDetail
\* failed.
genericDetailIgnoresErr(toggle, user, defaultValue, a, now) ==
  IF ~ToggleFound(toggle)
    THEN [value |-> defaultValue, ruleIndex |-> Nil, version |-> Nil,
          reason |-> "Toggle:[" \o toggle \o "] not exist", recorded |-> <<>>]
    ELSE LET detail == evalDetail(Repo.Toggles[toggle], user, a)
         IN [value |-> detail.Value, ruleIndex |-> detail.RuleIndex,
             version |-> detail.Version, reason |-> detail.Reason,
             recorded |-> IF RecorderSet
                            THEN <<[Time |-> now, Key |-> toggle, Value |-> detail.Value,
                                    Index |-> detail.VariationIndex,
                                    Version |-> detail.Version,
                                    Reason |-> detail.Reason]>>
                            ELSE <<>>]

\* genericDetail (lines 631-668). recorded is the list of the AccessEvents the
\* call hands to RecordAccess; now is time.Now() in milliseconds.
genericDetail(toggle, user, defaultValue, a, now) ==
  IF ~ToggleFound(toggle)
    THEN [value |-> defaultValue, ruleIndex |-> Nil, version |-> Nil,
          reason |-> "Toggle:[" \o toggle \o "] not exist", recorded |-> <<>>]
    ELSE LET detail == evalDetail(Repo.Toggles[toggle], user, a)
             value == IF ~detail.err THEN detail.Value ELSE defaultValue
         IN [value |-> value, ruleIndex |-> detail.RuleIndex,
             version |-> detail.Version, reason |-> detail.Reason,
             recorded |-> IF RecorderSet
                            THEN <<[Time |-> now, Key |-> toggle, Value |-> value,
                                    Index |-> detail.VariationIndex,
                                    Version |-> detail.Version,
                                    Reason |-> detail.Reason]>>
                            ELSE <<>>]

\* The type assertions val.(bool), val.(string), val.(float64), val.(int).
IsKind(val, kind) == val.kind = kind

ReasonMismatch == "Value type mismatch"

\* What a *Value accessor returns: only a value.
OnlyValue(value, g) ==
  [value |-> value, ruleIndex |-> Nil, version |-> Nil, reason |-> "",
   recorded |-> g.recorded]

\* BoolValue (lines 595-602).
BoolValue(toggle, user, defaultValue, a, now) ==
  LET g == genericDetail(toggle, user, defaultValue, a, now) IN
  OnlyValue(IF ~IsKind(g.value, "bool") THEN defaultValue ELSE g.value, g)

\* StrValue (lines 604-611).
StrValue(toggle, user, defaultValue, a, now) ==
  LET g == genericDetail(toggle, user, defaultValue, a, now) IN
  OnlyValue(IF ~IsKind(g.value, "string") THEN defaultValue ELSE g.value, g)

\* NumberValue without the conversion of an int.
NumberValueFloatOnly(toggle, user, defaultValue, a, now) ==
  LET g == genericDetail(toggle, user, defaultValue, a, now) IN
  OnlyValue(IF ~IsKind(g.value, "float64") THEN defaultValue ELSE g.value, g)

\* NumberValue (lines 613-624): an int is converted, a float64 is returned.
NumberValue(toggle, user, defaultValue, a, now) ==
  LET g == genericDetail(toggle, user, defaultValue, a, now) IN
  OnlyValue(IF IsKind(g.value, "int") THEN FloatV(g.value.v)
            ELSE IF ~IsKind(g.value, "float64") THEN defaultValue
            ELSE g.value, g)

\* JsonValue (lines 626-629).
JsonValue(toggle, user, defaultValue, a, now) ==
  LET g == genericDetail(toggle, user, defaultValue, a, now) IN
  OnlyValue(g.value, g)

\* The typed detail with the reason of the evaluation left in place on a
\* failed assertion.
TypedDetailKeepsReason(g, defaultValue, kind) ==
  IF ~IsKind(g.value, kind)
    THEN [value |-> defaultValue, ruleIndex |-> g.ruleIndex,
          version |-> g.version, reason |-> g.reason, recorded |-> g.recorded]
    ELSE [value |-> g.value, ruleIndex |-> g.ruleIndex, version |-> g.version,
          reason |-> g.reason, recorded |-> g.recorded]

\* The body shared by BoolDetail, StrDetail and NumberDetail (lines 672-680,
\* 685-693, 698-706) for the asserted type kind.
TypedDetail(g, defaultValue, kind) ==
  IF ~IsKind(g.value, kind)
    THEN [value |-> defaultValue, ruleIndex |-> g.ruleIndex,
          version |-> g.version, reason |-> ReasonMismatch,
          recorded |-> g.recorded]
    ELSE [value |-> g.value, ruleIndex |-> g.ruleIndex, version |-> g.version,
          reason |-> g.reason, recorded |-> g.recorded]

\* BoolDetail asserting the wrong type.
BoolDetailAssertsString(toggle, user, defaultValue, a, now) ==
  TypedDetail(genericDetail(toggle, user, defaultValue, a, now), defaultValue, "string")

\* BoolDetail (lines 670-681).
BoolDetail(toggle, user, defaultValue, a, now) ==
  TypedDetail(genericDetail(toggle, user, defaultValue, a, now), defaultValue, "bool")

\* StrDetail (lines 683-694).
StrDetail(toggle, user, defaultValue, a, now) ==
  TypedDetail(genericDetail(toggle, user, defaultValue, a, now), defaultValue, "string")

\* NumberDetail (lines 696-707): only a float64 is accepted.
NumberDetail(toggle, user, defaultValue, a, now) ==
  TypedDetail(genericDetail(toggle, user, defaultValue, a, now), defaultValue, "float64")

\* JsonDetail asserting a structured value as the typed details assert theirs.
JsonDetailAsserts(toggle, user, defaultValue, a, now) ==
  TypedDetail(genericDetail(toggle, user, defaultValue, a, now), defaultValue, "json")

\* JsonDetail (lines 709-713).
JsonDetail(toggle, user, defaultValue, a, now) ==
  LET g == genericDetail(toggle, user, defaultValue, a, now) IN
  [value |-> g.value, ruleIndex |-> g.ruleIndex, version |-> g.version,
   reason |-> g.reason, recorded |-> g.recorded]

Accessors ==
  {"BoolValue", "StrValue", "NumberValue", "JsonValue",
   "BoolDetail", "StrDetail", "NumberDetail", "JsonDetail"}

\* The kind of value an accessor is asked for.
KindOf(fn) ==
  CASE fn \in {"BoolValue", "BoolDetail"} -> "bool"
    [] fn \in {"StrValue", "StrDetail"} -> "string"
    [] fn \in {"NumberValue", "NumberDetail"} -> "number"
    [] OTHER -> "json"

\* The defaults a caller can pass: of the static type of the parameter (bool,
\* string, float64) and, for the JSON accessors, any value or nil.
Defaults(fn) ==
  CASE KindOf(fn) = "bool" -> {BoolV(TRUE), BoolV(FALSE)}
    [] KindOf(fn) = "string" -> {StrV(1), StrV(9)}
    [] KindOf(fn) = "number" -> {FloatV(1), FloatV(9)}
    [] OTHER -> {NilValue, JsonV(9), BoolV(TRUE)}

Invoke(fn, toggle, user, d, a, now) ==
  CASE fn = "BoolValue" -> BoolValue(toggle, user, d, a, now)
    [] fn = "StrValue" -> StrValue(toggle, user, d, a, now)
    [] fn = "NumberValue" -> NumberValue(toggle, user, d, a, now)
    [] fn = "JsonValue" -> JsonValue(toggle, user, d, a, now)
    [] fn = "BoolDetail" -> BoolDetail(toggle, user, d, a, now)
    [] fn = "StrDetail" -> StrDetail(toggle, user, d, a, now)
    [] fn = "NumberDetail" -> NumberDetail(toggle, user, d, a, now)
    [] OTHER -> JsonDetail(toggle, user, d, a, now)

(* ----------- construction and shutdown (featureprobe.go) --------------- *)
\* strings.HasSuffix (line 539).
HasSuffix(s, suffix) ==
  Len(s) >= Len(suffix) /\ SubSeq(s, Len(s) - Len(suffix) + 1, Len(s)) = suffix

\* FPConfig{}, the zero value (lines 470-477).
NoConfig ==
  [RemoteUrl |-> "", TogglesUrl |-> "", EventsUrl |-> "",
   ServerSdkKey |-> "", RefreshInterval |-> 0, WaitFirstResp |-> FALSE]

\* The options (lines 509-531); an option carries the argument it was made
\* with.
WithTogglesUri(uri) == [opt |-> "TogglesUri", uri |-> uri, n |-> 0, b |-> FALSE]
WithEventsUri(uri) == [opt |-> "EventsUri", uri |-> uri, n |-> 0, b |-> FALSE]
WithRefreshInterval(interval) ==
  [opt |-> "RefreshInterval", uri |-> "", n |-> interval, b |-> FALSE]
WithWaitFirstResp(wait) == [opt |-> "WaitFirstResp", uri |-> "", n |-> 0, b |-> wait]

\* opt(&fpConfig), line 552.
ApplyOption(cfg, o) ==
  CASE o.opt = "TogglesUri" -> [cfg EXCEPT !.TogglesUrl = cfg.RemoteUrl \o o.uri]
    [] o.opt = "EventsUri" -> [cfg EXCEPT !.EventsUrl = cfg.RemoteUrl \o o.uri]
    [] o.opt = "RefreshInterval" -> [cfg EXCEPT !.RefreshInterval = o.n]
    [] OTHER -> [cfg EXCEPT !.WaitFirstResp = o.b]

RECURSIVE ApplyOptions(_, _)
ApplyOptions(cfg, opts) ==
  IF opts = <<>> THEN cfg
  ELSE ApplyOptions(ApplyOption(cfg, Head(opts)), Tail(opts))

\* NewFeatureProbe, lines 539-553: the configuration of the client.
ConfigOf(remoteUrl, severSdkKey, opts) ==
  LET url == IF ~HasSuffix(remoteUrl, "/") THEN remoteUrl \o "/" ELSE remoteUrl
  IN ApplyOptions([RemoteUrl |-> url,
                   TogglesUrl |-> url \o "api/server-sdk/toggles",
                   EventsUrl |-> url \o "api/events",
                   ServerSdkKey |-> severSdkKey,
                   RefreshInterval |-> 2000,
                   WaitFirstResp |-> TRUE], opts)

\* time.NewTicker (event.go:80) panics when the interval is not positive.
TickerPanics(cfg) == cfg.RefreshInterval <= 0

\* NewFeatureProbe refusing an empty remote URL or an empty server key.
NewFeatureProbeValidates(remoteUrl, severSdkKey, opts) ==
  [Config |-> ConfigOf(remoteUrl, severSdkKey, opts),
   panics |-> TickerPanics(ConfigOf(remoteUrl, severSdkKey, opts)),
   err |-> IF remoteUrl = "" \/ severSdkKey = "" THEN "invalid" ELSE "nil"]

\* NewFeatureProbe (lines 537-568): the configuration is built, the recorder
\* and the synchronizer are made and started, and the error returned is nil
\* on every path; nothing looks at the URL or the key.
NewFeatureProbe(remoteUrl, severSdkKey, opts) ==
  [Config |-> ConfigOf(remoteUrl, severSdkKey, opts),
   panics |-> TickerPanics(ConfigOf(remoteUrl, severSdkKey, opts)),
   err |-> "nil"]

\* The remote URLs, server keys and option lists a caller passes.
RemoteUrls ==
  {"", "http://host", "http://host/", "::not a url", "host"}
ServerSdkKeys == {"", "server-key", "other-key"}
Options ==
  {WithTogglesUri("toggles"), WithEventsUri("events"),
   WithRefreshInterval(100), WithRefreshInterval(0), WithWaitFirstResp(FALSE)}
OptionLists == UNION {[1..n -> Options] : n \in 0..MaxOptions}

\* What the Synchronizer publishes: a snapshot with one toggle.
Snapshot ==
  [isNil |-> FALSE,
   Toggles |-> [k \in {"bool_toggle"} |-> FixtureRepo.Toggles[k]]]

\* Repository.Clear: the repository is reset to empty.
Clear(repo) == [isNil |-> FALSE, Toggles |-> <<>>]

\* Close (lines 737-747): the order of its three steps.
CloseStepsRepoFirst == <<"Repo", "Syncer", "Recorder">>
CloseSteps == <<"Syncer", "Repo", "Recorder">>

\* Close() has returned: its steps are done and the Stop() of the recorder is
\* not blocked.
Closed == closePc = Len(CloseSteps) /\ Waiting = {}


(* ------------------ aggregation of one drained batch ------------------- *)
\* The events a batch is drawn from. Those of toggle "a" have an index that
\* is nil or points to one of the cells holding 0, and a version that is nil or
\* points to a cell holding 1; those of toggle "b" have neither. The served
\* value differs with the time.
BatchEvents ==
  {[Time |-> t, Key |-> "a", Value |-> FloatV(t), Index |-> i, Version |-> ver,
    Reason |-> "default"] :
     t \in 1..MaxTime, i \in {Nil} \cup {Ptr(a, 0) : a \in Cells},
     ver \in {Nil, Ptr(1, 1)}}
  \cup
  {[Time |-> t, Key |-> "b", Value |-> FloatV(t), Index |-> Nil, Version |-> Nil,
    Reason |-> "default"] : t \in 1..MaxTime}

\* The non-empty batches of at most MaxBatch events.
Batches == UNION {[1..n -> BatchEvents] : n \in 1..MaxBatch}

NoAccess == [StartTime |-> 0, EndTime |-> 0, Counters |-> <<>>]

\* No batch: the aggregation is not used.
AggIdle ==
  /\ batch = <<>>
  /\ access = NoAccess
  /\ loopVarShared = FALSE


NoCall ==
  [fn |-> "none", toggle |-> "none", user |-> "none", def |-> NilValue,
   before |-> 0, found |-> FALSE, closed |-> FALSE, pc |-> "none",
   eval |-> [err |-> FALSE, Value |-> NilValue, VariationIndex |-> Nil,
             RuleIndex |-> Nil, Version |-> Nil, Reason |-> ""],
   out |-> [value |-> NilValue, ruleIndex |-> Nil, version |-> Nil,
            reason |-> "", recorded |-> <<>>]]

\* No client: the facade is not used.
FacadeIdle ==
  /\ Repo = NilRepo
  /\ hasRecorder = FALSE
  /\ call = NoCall
  /\ built = "none"
  /\ Config = NoConfig
  /\ Syncer = "nil"
  /\ newErr = "none"
  /\ closePc = 0
  /\ closeLog = <<>>

\* A client over one of the repositories, with or without a Recorder.
FacadeInit ==
  /\ Repo \in Repos
  /\ hasRecorder \in BOOLEAN
  /\ call = NoCall
  /\ built = "literal"
  /\ Config = NoConfig
  /\ Syncer = "nil"
  /\ newErr = "none"
  /\ closePc = 0
  /\ closeLog = <<>>

\* What call notes of an accessor call that has got as far as pc: the
\* arguments, the length of the pending list and whether Close() had returned
\* when the call read the repository, what evalDetail resolved (when the
\* toggle was found) and what the accessor returns.
NoteCall(fn, toggle, user, d, a, now, pc) ==
  [fn |-> fn, toggle |-> toggle, user |-> user, def |-> d,
   before |-> Len(incomingEvents),
   found |-> ToggleFound(toggle),
   closed |-> Closed,
   pc |-> pc,
   eval |-> IF ToggleFound(toggle)
              THEN evalDetail(Repo.Toggles[toggle], user, a)
              ELSE NoCall.eval,
   out |-> Invoke(fn, toggle, user, d, a, now)]

\* One call of a typed accessor by the only goroutine there is. call notes the arguments, the length of the
\* pending list before the call, what evalDetail resolved (when the toggle was
\* found) and what the accessor returned; the events the call recorded are
\* appended to the pending list by RecordAccess (lines 175-179), which no
\* other goroutine contends for here.
AccessorCall(fn, toggle, user, d, a, now) ==
  LET out == Invoke(fn, toggle, user, d, a, now) IN
  /\ call' = NoteCall(fn, toggle, user, d, a, now, "returned")
  /\ incomingEvents' = incomingEvents \o out.recorded
  /\ appended' = appended \o out.recorded
  /\ UNCHANGED <<Repo, hasRecorder, built, Config, Syncer, newErr, closePc, closeLog,
                 avars, mu, wg, startOnce, stopOnce, stopChan, ticker, eventsUrl, tickC,
                 startCalls, startAdded, stopPc, recPc, recTmp, loopPc,
                 loopBranch, events, drained, posts, lastPost, failedFlushes, panicked, closeCount,
                 nLoops, flushesAfterStop, pendingAtObserve, finalBatch,
                 stopObs>>

\* The keys a caller asks for: those of the repository and one it lacks.
AskedKeys == (IF Repo.isNil THEN {} ELSE DOMAIN Repo.Toggles) \cup {"not_exist_toggle"}

\* The cell a call puts its copies in is a fresh one, and the clock it reads
\* moves on with every event recorded.
FreshCell == Len(appended) + 1
Now == Len(appended) + 1

FacadeNext ==
  /\ Len(incomingEvents) < MaxPending
  /\ \E fn \in Accessors, toggle \in AskedKeys, user \in Users :
       \E d \in Defaults(fn) : AccessorCall(fn, toggle, user, d, FreshCell, Now)

InitFacade == NewEventRecorder("http://host/api/events") /\ AggIdle /\ FacadeInit

SpecFacade == InitFacade /\ [][FacadeNext]_vars

(* ------------------- the life of a client ------------------------------ *)
\* No client yet.
ClientInit ==
  /\ Repo = NilRepo
  /\ hasRecorder = FALSE
  /\ call = NoCall
  /\ built = "none"
  /\ Config = NoConfig
  /\ Syncer = "nil"
  /\ newErr = "none"
  /\ closePc = 0
  /\ closeLog = <<>>

\* A call of NewFeatureProbe, lines 537-557: the configuration is built, and
\* the recorder is made for its events URL and started.
\* eventRecorder.Start() is the first Start() of the new recorder: wg.Add(1),
\* the ticker, the loop (event.go:78-93); when the ticker cannot be made the
\* call panics and there is no client. The ticker and the loop run from here
\* on, while the call goes on.
NewFeatureProbeCall(remoteUrl, severSdkKey, opts) ==
  LET new == NewFeatureProbe(remoteUrl, severSdkKey, opts) IN
  /\ built = "none"
  /\ eventsUrl' = new.Config.EventsUrl
  /\ startCalls' = 1
  /\ wg' = 1
  /\ startOnce' = TRUE
  /\ IF new.panics
       THEN /\ built' = "panicked"
            /\ UNCHANGED <<Repo, Config, ticker, loopPc, nLoops>>
       ELSE /\ built' = "started"
            /\ Config' = new.Config
            /\ Repo' = EmptyRepo
            /\ ticker' = TRUE
            /\ loopPc' = "select"
            /\ nLoops' = 1
  /\ UNCHANGED <<hasRecorder, Syncer, newErr, call, closePc, closeLog, avars,
                 incomingEvents, mu, stopOnce,
                 stopChan, tickC, startAdded, stopPc, recPc, recTmp,
                 loopBranch, events, appended, drained, posts, lastPost,
                 failedFlushes, panicked, closeCount, flushesAfterStop, pendingAtObserve,
                 finalBatch, stopObs>>

\* What NewFeatureProbe returns (lines 562-567): the client with its four
\* components, and the error.
NewFeatureProbeReturns ==
  /\ built' = "NewFeatureProbe"
  /\ hasRecorder' = TRUE
  /\ newErr' = NewFeatureProbe(Config.RemoteUrl, Config.ServerSdkKey, <<>>).err

\* NewFeatureProbe, lines 559-560: the synchronizer is made and started.
\* toggleSyncer.Start returns at once when it is not to wait for the first
\* response, and the constructor returns with an empty repository; otherwise
\* the constructor waits in it (SyncerReady).
SyncerStart ==
  /\ built = "started"
  /\ Syncer' = "running"
  /\ IF Config.WaitFirstResp
       THEN built' = "waiting" /\ UNCHANGED <<hasRecorder, newErr>>
       ELSE NewFeatureProbeReturns
  /\ UNCHANGED <<Repo, call, Config, closePc, closeLog, avars, rvars>>

\* NewFeatureProbe, line 560 and on: toggleSyncer.Start returns when the first
\* snapshot has been published or the wait has timed out, and the constructor
\* returns.
SyncerReady ==
  /\ built = "waiting"
  /\ NewFeatureProbeReturns
  /\ UNCHANGED <<Repo, call, Config, Syncer, closePc, closeLog, avars, rvars>>

\* A call of NewFeatureProbeForTest (lines 584-593) with the map of
\* TestUnitTestingForCaller: only Repo is set.
NewFeatureProbeForTestCall ==
  /\ built = "none"
  /\ built' = "NewFeatureProbeForTest"
  /\ Repo' = TestRepo
  /\ UNCHANGED <<hasRecorder, call, Config, Syncer, newErr, closePc, closeLog,
                 avars, rvars>>

\* A client made as a literal with no Repo (TestEvalNilRepo, lines 22-29).
LiteralNilRepo ==
  /\ built = "none"
  /\ built' = "literal"
  /\ Config' = [NoConfig EXCEPT !.RefreshInterval = 100]
  /\ UNCHANGED <<Repo, hasRecorder, call, Syncer, newErr, closePc, closeLog,
                 avars, rvars>>

\* A constructor has returned a client.
HasClient == built \in {"NewFeatureProbe", "NewFeatureProbeForTest", "literal"}

\* The running Synchronizer publishes a snapshot into the Repository.
SyncPublish ==
  /\ Syncer = "running"
  /\ Repo # Snapshot
  /\ Repo' = Snapshot
  /\ UNCHANGED <<hasRecorder, call, built, Config, newErr, Syncer, closePc,
                 closeLog, avars, rvars>>

\* One step of Close() (lines 738-746), in the order of CloseSteps; a step
\* whose component is nil is skipped. The step on the recorder is the call of
\* its Stop() (event.go:182-186); the Stop() goes on in StopWait and
\* StopReturn, and Close() returns when it has returned.
CloseStep ==
  LET step == CloseSteps[closePc + 1]
      entry(name) == [step |-> name, pending |-> incomingEvents]
  IN
  /\ HasClient
  /\ closePc < Len(CloseSteps)
  /\ Waiting = {}
  /\ closePc' = closePc + 1
  /\ CASE step = "Syncer" ->
             /\ Syncer' = IF Syncer = "nil" THEN "nil" ELSE "stopped"
             /\ closeLog' = IF Syncer = "nil" THEN closeLog
                             ELSE Append(closeLog, entry("Syncer.Stop"))
             /\ UNCHANGED <<Repo, rvars>>
       [] step = "Repo" ->
             /\ Repo' = IF Repo.isNil THEN Repo ELSE Clear(Repo)
             /\ closeLog' = IF Repo.isNil THEN closeLog
                             ELSE Append(closeLog, entry("Repo.Clear"))
             /\ UNCHANGED <<Syncer, rvars>>
       [] OTHER ->
             /\ IF hasRecorder
                  THEN /\ \E s \in Stoppers : StopClose(s)
                       /\ closeLog' = Append(closeLog, entry("Recorder.Stop"))
                  ELSE UNCHANGED <<closeLog, rvars>>
             /\ UNCHANGED <<Repo, Syncer>>
  /\ UNCHANGED <<hasRecorder, call, built, Config, newErr, avars>>

\* The keys asked of a client: those of its repository, those of the
\* snapshot (which the repository of a synchronized client held or will hold),
\* and one that no repository has.
ClientKeys ==
  AskedKeys \cup (IF Syncer = "nil" THEN {} ELSE DOMAIN Snapshot.Toggles)

\* An accessor call on the client, made by a goroutine of its own while
\* Close(), the synchronizer and the flush loop run. genericDetail reads the
\* repository and evaluates the toggle (lines 638-654) in one step, and calls
\* RecordAccess (lines 656-665) in a later one; the others may run in
\* between. In its life the client is asked through BoolDetail, for one user,
\* by one call at a time, and records at most MaxPending events.
ClientEvaluate ==
  /\ HasClient
  /\ call.pc # "evaluated"
  /\ \E toggle \in ClientKeys :
       /\ Len(appended) < MaxPending \/ ~ToggleFound(toggle) \/ RecorderUnset
       /\ call' = NoteCall("BoolDetail", toggle, "u1", BoolV(FALSE),
                           FreshCell, Now, "evaluated")
  /\ UNCHANGED <<Repo, hasRecorder, built, Config, Syncer, newErr, closePc,
                 closeLog, avars, rvars>>

\* The rest of the call: RecordAccess takes the mutex and appends the event
\* (event.go:176-178), if the call has one to record, and the accessor
\* returns.
ClientRecord ==
  /\ Alive
  /\ call.pc = "evaluated"
  /\ MuLockable
  /\ call' = [call EXCEPT !.pc = "returned"]
  /\ incomingEvents' = incomingEvents \o call.out.recorded
  /\ appended' = appended \o call.out.recorded
  /\ stopObs' = [s \in Stoppers |->
                  IF s \in Waiting /\ call.out.recorded # <<>>
                    THEN [stopObs[s] EXCEPT !.quiet = FALSE]
                    ELSE stopObs[s]]
  /\ UNCHANGED <<Repo, hasRecorder, built, Config, Syncer, newErr, closePc,
                 closeLog, avars, mu, wg, startOnce, stopOnce, stopChan,
                 ticker, eventsUrl, tickC, startCalls, startAdded, stopPc, recPc, recTmp,
                 loopPc, loopBranch, events, drained, posts, lastPost,
                 failedFlushes, panicked, closeCount, nLoops, flushesAfterStop,
                 pendingAtObserve, finalBatch>>

\* The constructors, each called on its inputs, and what runs while
\* NewFeatureProbe is in its call and after it: the ticker and the loop of the
\* recorder, which has no event to drain, and the synchronizer.
NewNext ==
  \/ \E remoteUrl \in RemoteUrls, key \in ServerSdkKeys, opts \in OptionLists :
       NewFeatureProbeCall(remoteUrl, key, opts)
  \/ SyncerStart
  \/ SyncerReady
  \/ SyncPublish
  \/ Tick
  \/ LoopSelectTick
  \/ FlushSwap
  \/ NewFeatureProbeForTestCall
  \/ LiteralNilRepo

InitNew == RecorderIdle /\ AggIdle /\ ClientInit

SpecNew == InitNew /\ [][NewNext]_vars

\* The recorder as NewFeatureProbeCall leaves it: made and started once.
RecorderStarted ==
  /\ eventsUrl = Config.EventsUrl
  /\ incomingEvents = <<>>
  /\ mu = "none"
  /\ wg = 1
  /\ startOnce = TRUE
  /\ stopOnce = FALSE
  /\ stopChan = "open"
  /\ ticker = TRUE
  /\ tickC = 0
  /\ startCalls = 1
  /\ startAdded = 0
  /\ stopPc = [s \in Stoppers |-> "idle"]
  /\ recPc = [r \in Recorders |-> "idle"]
  /\ recTmp = [r \in Recorders |-> <<>>]
  /\ loopPc = "select"
  /\ loopBranch = "none"
  /\ events = <<>>
  /\ appended = <<>>
  /\ drained = <<>>
  /\ posts = <<>>
  /\ lastPost = "none"
  /\ failedFlushes = {}
  /\ panicked = "none"
  /\ closeCount = 0
  /\ nLoops = 1
  /\ flushesAfterStop = 0
  /\ pendingAtObserve = <<>>
  /\ finalBatch = <<>>
  /\ stopObs = [s \in Stoppers |-> NoObs]

\* The remote URLs the clients that are used are made for: one for whose
\* events URL a request can be built, and one for which http.NewRequest
\* refuses it. NewFeatureProbe takes either.
ClientRemoteUrls == {"http://host", "::not a url"}

\* The client of NewFeatureProbe(remoteUrl, "server-key",
\* WithRefreshInterval(100)) when the constructor returns before the first
\* tick and the first snapshot; the states a later return leaves it in are
\* those that Tick, the loop and SyncPublish lead to from here.
BuiltByNewFeatureProbe ==
  /\ built = "NewFeatureProbe"
  /\ \E remoteUrl \in ClientRemoteUrls :
       Config = NewFeatureProbe(remoteUrl, "server-key",
                                <<WithRefreshInterval(100)>>).Config
  /\ RecorderStarted
  /\ Repo = EmptyRepo
  /\ hasRecorder = TRUE
  /\ Syncer = "running"
  /\ newErr = "nil"

\* The client of NewFeatureProbeForTest.
BuiltForTest ==
  /\ RecorderIdle
  /\ built = "NewFeatureProbeForTest"
  /\ Config = NoConfig
  /\ Repo = TestRepo
  /\ hasRecorder = FALSE
  /\ Syncer = "nil"
  /\ newErr = "none"

\* The literal client with no Repo.
BuiltLiteral ==
  /\ RecorderIdle
  /\ built = "literal"
  /\ Config = [NoConfig EXCEPT !.RefreshInterval = 100]
  /\ Repo = NilRepo
  /\ hasRecorder = FALSE
  /\ Syncer = "nil"
  /\ newErr = "none"

\* What runs in the life of a client. Its recorder is started once, by
\* NewFeatureProbe, so no Wait() registers after the release of the waiters
\* (StopReturnLate needs a second Start).
ClientNext ==
  \/ SyncPublish
  \/ ClientEvaluate
  \/ ClientRecord
  \/ CloseStep
  \/ Tick
  \/ LoopSelectStop
  \/ LoopSelectTick
  \/ FlushSwap
  \/ FlushPost
  \/ WgDone
  \/ WgRelease
  \/ \E s \in Stoppers : StopCallWait(s) \/ StopReturn(s)

\* A client as one of the constructors leaves it, not yet used.
InitClient ==
  /\ AggIdle
  /\ call = NoCall
  /\ closePc = 0
  /\ closeLog = <<>>
  /\ BuiltByNewFeatureProbe \/ BuiltForTest \/ BuiltLiteral

SpecClient == InitClient /\ [][ClientNext]_vars

\* A drained batch, not yet aggregated, under either semantics of the range
\* variable.
AggInit ==
  /\ batch \in Batches
  /\ access = NoAccess
  /\ loopVarShared \in BOOLEAN

\* doFlush, line 104, for the drained batch: buildPackedData and in it
\* buildAccess.
Aggregate ==
  /\ batch # <<>>
  /\ access = NoAccess
  /\ access' = buildPackedData(batch, loopVarShared)[1].Access
  /\ UNCHANGED <<batch, loopVarShared, rvars, fvars>>

AggNext == Aggregate

InitAgg == RecorderIdle /\ FacadeIdle /\ AggInit

SpecAgg == InitAgg /\ [][AggNext]_vars

Init == RecorderInit /\ FacadeIdle /\ AggIdle

Next == RecorderNext

Spec == Init /\ [][Next]_vars

\* Scheduling. The ticker of line 80 is never stopped and keeps firing; the
\* loop is a goroutine that the scheduler keeps running: a select with a ready
\* case proceeds, Lock() gets the mutex once it stays free, and
\* httpClient.Do (line 114) returns, at the latest on its timeout. A
\* RecordAccess call that holds the mutex goes on to release it (line 178).
\* Nothing makes a caller call Start, Stop or RecordAccess.
Fairness ==
  /\ WF_vars(Tick)
  /\ WF_vars(LoopSelectStop \/ LoopSelectTick)
  /\ WF_vars(FlushSwap)
  /\ WF_vars(FlushPost)
  /\ WF_vars(WgDone)
  /\ WF_vars(WgRelease)
  /\ \A r \in Recorders : WF_vars(RecordWrite(r))

\* The runs followed to their end under fair scheduling make at most
\* MaxLiveCalls API calls.
LiveNext == Next /\ Calls' <= MaxLiveCalls

SpecLive == Init /\ [][LiveNext]_vars /\ Fairness

(* ------------------------------ claims --------------------------------- *)
IsPrefix(s, t) == Len(s) <= Len(t) /\ \A i \in 1..Len(s) : s[i] = t[i]

\* The Stop calls that have returned.
Returned == {s \in Stoppers : stopPc[s] = "returned"}

\* The loop has ended: its final doFlush has returned, and wg.Done() has
\* lowered the counter.
LoopEnded == loopPc \in {"release", "done"}

\* C1: a Stop() called after Start() returns only when the loop has taken the
\* stop branch and has finished the doFlush of that branch; exactly one
\* doFlush was begun after the stop signal was observed, it drained all that
\* was pending at that moment. (It holds for any number of earlier Start
\* calls, one included.)
C1_StopWaitsForFinalFlush ==
  \A s \in Returned :
    stopObs[s].started =>
      /\ LoopEnded
      /\ flushesAfterStop = 1
      /\ IsPrefix(pendingAtObserve, finalBatch)
      /\ finalBatch # <<>> => drained # <<>> /\ drained[Len(drained)] = finalBatch

\* C1, witness: a Stop() called after a single Start() has returned, and the
\* final flush drained an event that was pending when the stop was observed.
C1_Witness ==
  \E s \in Returned :
    /\ stopObs[s].started
    /\ startCalls = 1
    /\ pendingAtObserve # <<>>
    /\ drained # <<>>

\* C2: Start() is idempotent: there is at most one loop, and once the Start
\* calls have returned the recorder is as after a single Start: the WaitGroup
\* counts one until the loop is done and zero after, so that a Stop() returns.
C2_StartIdempotent ==
  /\ nLoops <= 1
  /\ (startCalls >= 1 /\ startAdded = 0) =>
       /\ nLoops = 1
       /\ wg = IF LoopEnded THEN 0 ELSE 1

\* C3: Stop() is idempotent: the stop channel is closed at most once, at most
\* one final flush is begun, and every Stop() call returns: once the loop has
\* terminated no Stop() call is left blocked, and none panics.
C3_StopIdempotent ==
  /\ closeCount <= 1
  /\ flushesAfterStop <= 1
  /\ loopPc = "done" => \A s \in Stoppers : stopPc[s] # "waiting"
  /\ \A s \in Stoppers : stopPc[s] # "panicked"

\* C4 as claimed: a Stop() on a started recorder, with no event appended
\* between its call and its return, sees no delivery attempt between the two
\* when the pending list was empty at the call, and exactly one when it held
\* an event.
C4_Original ==
  \A s \in Returned :
    (stopObs[s].started /\ stopObs[s].quiet) =>
      stopObs[s].dPosts = IF stopObs[s].pending = 0 THEN 0 ELSE 1

\* C4, amended: the same, on a recorder for whose events URL a request can
\* be built, for a Stop() called while the loop has not terminated and is not
\* inside a doFlush (it waits in its select, or is about to be launched by a
\* Start() in progress); whichever of the tick and stop branches the loop
\* takes first.
C4_StopDeliveries ==
  \A s \in Returned :
    (/\ ~NewRequestFails(eventsUrl)
     /\ stopObs[s].started
     /\ stopObs[s].quiet
     /\ stopObs[s].loopIdle) =>
      stopObs[s].dPosts = IF stopObs[s].pending = 0 THEN 0 ELSE 1

\* C4, witness: such a Stop() has returned, an event was pending at its call,
\* and one delivery attempt was made before it returned.
C4_Witness ==
  \E s \in Returned :
    /\ stopObs[s].started
    /\ stopObs[s].quiet
    /\ stopObs[s].loopIdle
    /\ stopObs[s].pending >= 1
    /\ stopObs[s].dPosts = 1

\* Two pointers hold the same value: both nil, or both set and equal in what
\* they point to.
SameVal(p, q) ==
  (p.addr = 0) = (q.addr = 0) /\ (p.addr # 0 => p.val = q.val)

\* The batch is N events of one toggle key, one index value and one version
\* value.
OneVariation ==
  \A i, j \in 1..Len(batch) :
    /\ batch[i].Key = batch[j].Key
    /\ SameVal(batch[i].Index, batch[j].Index)
    /\ SameVal(batch[i].Version, batch[j].Version)

\* C5: a batch of N events of one toggle key, index and version is
\* aggregated into exactly one counter for that key, with Count = N.
C5_OneCounterOfN ==
  (access # NoAccess /\ OneVariation) =>
    /\ DOMAIN access.Counters = {batch[1].Key}
    /\ Cardinality(access.Counters[batch[1].Key]) = 1
    /\ \A c \in access.Counters[batch[1].Key] : c.Count = Len(batch)

\* The key of the last call is a toggle of the repository.
Present == ~Repo.isNil /\ call.toggle \in DOMAIN Repo.Toggles

Called == call.fn # "none"
IsDetail == call.fn \in {"BoolDetail", "StrDetail", "NumberDetail", "JsonDetail"}

\* C6 as claimed: every accessor call on a client with a Recorder appends
\* exactly one AccessEvent to the pending list, whatever the outcome.
C6_Original ==
  (Called /\ hasRecorder) => Len(incomingEvents) = call.before + 1

\* C6, amended: an accessor call on a client with a Recorder appends exactly
\* one AccessEvent, for the key asked, when the repository holds the toggle
\* (out-of-range index and type mismatch included), and none when the
\* repository is nil or lacks the key.
C6_OneEventPerFoundToggle ==
  (Called /\ hasRecorder) =>
    IF Present
      THEN /\ Len(incomingEvents) = call.before + 1
           /\ incomingEvents[Len(incomingEvents)].Key = call.toggle
      ELSE Len(incomingEvents) = call.before

\* C6, witness: a call whose evaluation overflowed has appended its event.
C6_Witness ==
  /\ Called /\ hasRecorder /\ Present
  /\ call.eval.err
  /\ Len(incomingEvents) = call.before + 1

\* C7: with a nil repository or a key the repository lacks, every accessor
\* returns the caller's default, and a detail has no rule index, no version
\* and a reason that contains "not exist".
C7_MissingToggle ==
  (Called /\ ~Present) =>
    /\ call.out.value = call.def
    /\ call.out.ruleIndex = Nil
    /\ call.out.version = Nil
    /\ IsDetail => Contains(call.out.reason, "not exist")

\* C7, witness: a detail accessor was called on a nil repository.
C7_Witness == Called /\ IsDetail /\ Repo.isNil /\ call.out.value = call.def

\* The value the evaluation resolved is of the kind the accessor asks for; a
\* number is a float64 or an int.
KindMatches ==
  CASE KindOf(call.fn) = "bool" -> call.eval.Value.kind = "bool"
    [] KindOf(call.fn) = "string" -> call.eval.Value.kind = "string"
    [] KindOf(call.fn) = "number" -> call.eval.Value.kind \in {"float64", "int"}
    [] OTHER -> TRUE

\* C8 as claimed: when the resolved value is not of the kind asked for, the
\* accessor returns the caller's default, and a detail has the reason "value
\* type mismatch" with the rule index and the version of the evaluation.
C8_Original ==
  (Called /\ Present /\ ~call.eval.err /\ ~KindMatches) =>
    /\ call.out.value = call.def
    /\ IsDetail =>
         /\ call.out.reason = "value type mismatch"
         /\ call.out.ruleIndex = call.eval.RuleIndex
         /\ call.out.version = call.eval.Version

\* C8, amended: the same with the reason as the code spells it, "Value type
\* mismatch".
C8_TypeMismatch ==
  (Called /\ Present /\ ~call.eval.err /\ ~KindMatches) =>
    /\ call.out.value = call.def
    /\ IsDetail =>
         /\ call.out.reason = "Value type mismatch"
         /\ call.out.ruleIndex = call.eval.RuleIndex
         /\ call.out.version = call.eval.Version

\* C8, witness: a detail accessor met a value of another kind, resolved by a
\* toggle that has a version.
C8_Witness ==
  /\ Called /\ Present /\ ~call.eval.err /\ ~KindMatches /\ IsDetail
  /\ call.out.version # Nil

\* C9: when the serve selects an index beyond the variations, every accessor
\* returns the caller's default, and a detail's reason contains "overflow"
\* and is not the type-mismatch reason.
C9_Overflow ==
  (Called /\ Present /\ call.eval.err) =>
    /\ call.out.value = call.def
    /\ IsDetail =>
         /\ Contains(call.out.reason, "overflow")
         /\ call.out.reason # "Value type mismatch"

\* C9, witness: a typed detail accessor was called on the overflowing toggle.
C9_Witness ==
  /\ Called /\ Present /\ call.eval.err
  /\ call.fn \in {"BoolDetail", "StrDetail", "NumberDetail"}

\* C10: the events appended, in the order of their appending, are the drained
\* batches one after the other followed by the pending list: every event is
\* in exactly one batch or pending, none is lost or doubled, and a batch keeps
\* the order of appending.
C10_AtomicSwap ==
  /\ Flatten(drained) \o incomingEvents = appended
  /\ \A i, j \in 1..Len(appended) : appended[i] = appended[j] => i = j

\* C10, witness: two batches have been drained and an event is pending.
C10_Witness ==
  /\ Len(drained) >= 2
  /\ incomingEvents # <<>>

\* C11: a drained batch whose request could not be built, or whose delivery
\* failed, is discarded: its events are not in the pending list, not in the
\* batch the loop holds for delivery, in no batch drained later and in no
\* delivery attempt but its own (none at all when no request can be built);
\* and the pending list holds exactly the events appended and not yet
\* drained, in their order.
C11_FailedBatchDiscarded ==
  /\ NewRequestFails(eventsUrl) => posts = <<>>
  /\ \A i \in failedFlushes :
       /\ Range(drained[i]) \cap Range(incomingEvents) = {}
       /\ loopPc = "post" => Range(drained[i]) \cap Range(events) = {}
       /\ \A j \in 1..Len(drained) :
            j # i => Range(drained[i]) \cap Range(drained[j]) = {}
       /\ Cardinality({k \in 1..Len(posts) :
                         Range(posts[k]) \cap Range(drained[i]) # {}}) <= 1
       /\ \A k \in 1..Len(posts) :
            Range(posts[k]) \cap Range(drained[i]) # {} => posts[k] = drained[i]
       /\ incomingEvents =
            SubSeq(appended, Len(Flatten(drained)) + 1, Len(appended))

\* C11, witness: a delivery failed, a later batch was attempted after it, and
\* an event appended meanwhile is pending.
C11_Witness ==
  /\ \E i \in failedFlushes : i < Len(drained)
  /\ Len(posts) >= 2
  /\ incomingEvents # <<>>

\* C12: while doFlush has a delivery outstanding the loop does not hold the
\* mutex: it is free, or held by a RecordAccess that is appending, so that a
\* RecordAccess completes without waiting for the network; and no step of a
\* RecordAccess makes a delivery attempt.
C12_NoLockDuringDelivery ==
  /\ [](loopPc = "post" =>
          \/ mu = "none"
          \/ mu = "rec" /\ \E r \in Recorders : recPc[r] = "locked")
  /\ [][recPc' # recPc => posts' = posts /\ lastPost' = lastPost]_vars

\* C12, witness: with a delivery outstanding, a RecordAccess has appended an
\* event and another holds the mutex.
C12_Witness ==
  /\ loopPc = "post"
  /\ incomingEvents # <<>>
  /\ mu = "rec"

\* The event timestamps of the batch.
BatchTimes == {batch[i].Time : i \in 1..Len(batch)}

\* C13: the Access built from a batch has the smallest event Time as
\* StartTime and the largest as EndTime, hence StartTime <= EndTime.
C13_TimeWindow ==
  access # NoAccess =>
    /\ access.StartTime \in BatchTimes
    /\ access.EndTime \in BatchTimes
    /\ \A t \in BatchTimes : access.StartTime <= t /\ t <= access.EndTime
    /\ access.StartTime <= access.EndTime

\* The names of the steps Close() has performed, in their order.
LogSteps == [i \in 1..Len(closeLog) |-> closeLog[i].step]

\* The steps claimed for this client: those whose component is not nil.
ClaimedSteps ==
  LET Has(n) == CASE n = "Syncer.Stop" -> Syncer # "nil"
                  [] n = "Repo.Clear" -> ~Repo.isNil
                  [] OTHER -> hasRecorder
  IN SelectSeq(<<"Syncer.Stop", "Repo.Clear", "Recorder.Stop">>, Has)

\* Every key of the repositories, and one that none has.
AllKeys ==
  DOMAIN FixtureRepo.Toggles \cup DOMAIN TestRepo.Toggles \cup {"not_exist_toggle"}

\* Whatever accessor is called now, with whatever key, user and default, it
\* returns the default.
EveryAccessorDefaults ==
  \A fn \in Accessors, toggle \in AllKeys, user \in Users :
    \A d \in Defaults(fn) : Invoke(fn, toggle, user, d, FreshCell, Now).value = d

\* The events that were pending when Close() stopped the recorder.
PendingAtStop ==
  UNION {Range(closeLog[i].pending) :
           i \in {j \in 1..Len(closeLog) : closeLog[j].step = "Recorder.Stop"}}

\* Close() runs its steps in the claimed order, skipping a component that is
\* nil; when it has returned the Synchronizer no longer runs, the repository
\* (if any) holds no toggle, and every accessor call from then on returns the
\* caller's default.
CloseInOrder ==
  /\ IsPrefix(LogSteps, ClaimedSteps)
  /\ Closed =>
       /\ LogSteps = ClaimedSteps
       /\ Syncer # "running"
       /\ ~Repo.isNil => DOMAIN Repo.Toggles = {}
       /\ EveryAccessorDefaults
  /\ call.closed => call.out.value = call.def

\* C14 as claimed: Close() stops the Synchronizer, then clears the
\* Repository, then stops the EventRecorder, skipping a component that is
\* nil; when it has returned, the events that were pending when the recorder
\* was stopped have been handed to a delivery, the repository holds no toggle
\* and every accessor call from then on returns the caller's default.
C14_Original ==
  /\ CloseInOrder
  /\ Closed => PendingAtStop \subseteq Range(Flatten(posts))

\* C14, amended: the same, except that the events pending when the recorder
\* was stopped have been drained from the pending list, and have been handed
\* to a delivery when a request can be built for the client's events URL;
\* when http.NewRequest refuses that URL they were dropped with no delivery
\* attempt at all.
C14_CloseOrder ==
  /\ CloseInOrder
  /\ Closed =>
       /\ PendingAtStop \subseteq Range(Flatten(drained))
       /\ PendingAtStop \cap Range(incomingEvents) = {}
       /\ IF NewRequestFails(eventsUrl)
            THEN posts = <<>>
            ELSE PendingAtStop \subseteq Range(Flatten(posts))

\* C14, witness: the Close() of a client of NewFeatureProbe has returned
\* after its three steps, an event was pending when the recorder was stopped
\* and has gone out with a delivery, and a toggle of the last snapshot was
\* asked for afterwards.
C14_Witness ==
  /\ Closed
  /\ built = "NewFeatureProbe"
  /\ Len(closeLog) = 3
  /\ closeLog[3].pending # <<>>
  /\ PendingAtStop \subseteq Range(Flatten(posts))
  /\ call.closed
  /\ call.toggle \in DOMAIN Snapshot.Toggles

\* C14, the case left out of the statement: the Close() of a client whose
\* events URL http.NewRequest refuses has returned, and the event that was
\* pending when the recorder was stopped was dropped without a delivery.
C14_Dropped ==
  /\ Closed
  /\ NewRequestFails(eventsUrl)
  /\ PendingAtStop # {}
  /\ posts = <<>>

\* The client was made from an empty remote URL (which NewFeatureProbe turns
\* into "/") and an empty server key.
EmptyUrlAndKey == Config.RemoteUrl = "/" /\ Config.ServerSdkKey = ""

\* The one loop of the recorder runs: it is at its select or in a periodic
\* flush.
LoopLaunchedOnce == nLoops = 1 /\ loopPc \in {"select", "flush", "post"}

\* C17 as claimed: NewFeatureProbe called with an empty remote URL and an
\* empty server key returns a non-nil error.
C17_Original ==
  (built = "NewFeatureProbe" /\ EmptyUrlAndKey) => newErr # "nil"

\* C17, amended: whenever NewFeatureProbe returns, whatever the remote URL
\* and the server key (empty and malformed ones included), the error is nil
\* and the client runs: its recorder is started, with its loop and ticker,
\* and its synchronizer is running. (It returns only for a positive refresh
\* interval.)
C17_NeverFails ==
  built = "NewFeatureProbe" =>
    /\ newErr = "nil"
    /\ hasRecorder /\ ticker /\ LoopLaunchedOnce /\ wg = 1
    /\ Syncer = "running"
    /\ ~Repo.isNil
    /\ Config.RefreshInterval > 0

\* C17, witness: NewFeatureProbe has returned a running client for an empty
\* remote URL and an empty server key; it waited for the first response, the
\* snapshot is published, and the loop is in a periodic flush.
C17_Witness ==
  /\ built = "NewFeatureProbe"
  /\ EmptyUrlAndKey
  /\ newErr = "nil"
  /\ Config.WaitFirstResp
  /\ Repo = Snapshot
  /\ loopPc = "flush"

IsJson == call.fn \in {"JsonValue", "JsonDetail"}

\* C15: when the evaluation resolved a variation, of whatever kind, JsonValue
\* and JsonDetail return that value as it is, and JsonDetail gives the reason,
\* rule index and version of the evaluation, never the type-mismatch reason.
C15_JsonNeverMismatches ==
  (Called /\ IsJson /\ Present /\ ~call.eval.err) =>
    /\ call.out.value = call.eval.Value
    /\ call.fn = "JsonDetail" =>
         /\ call.out.reason = call.eval.Reason
         /\ call.out.reason # ReasonMismatch
         /\ call.out.ruleIndex = call.eval.RuleIndex
         /\ call.out.version = call.eval.Version

\* C15, witness: JsonDetail was called on a toggle that resolved to a value
\* that is not structured, with a default that differs from it.
C15_Witness ==
  /\ Called /\ call.fn = "JsonDetail" /\ Present /\ ~call.eval.err
  /\ call.eval.Value.kind \in {"bool", "string", "float64", "int"}
  /\ call.def # call.eval.Value
  /\ call.out.value = call.eval.Value

\* The values of the map given to NewFeatureProbeForTest.
Configured(key) == TestRepo.Toggles[key].Variations[1]

\* The accessor asks for the kind of the configured value; the JSON accessors
\* ask for any.
MatchingKind ==
  CASE KindOf(call.fn) = "bool" -> Configured(call.toggle).kind = "bool"
    [] KindOf(call.fn) = "string" -> Configured(call.toggle).kind = "string"
    [] KindOf(call.fn) = "number" -> Configured(call.toggle).kind \in {"float64", "int"}
    [] OTHER -> TRUE

\* C16: on a client of NewFeatureProbeForTest, with no Recorder and no
\* Synchronizer, a *Value accessor of the matching kind returns the
\* configured value for every user and default, an int as the equal float64
\* through NumberValue; and nothing is recorded.
C16_ForTestClient ==
  (/\ Called /\ Repo = TestRepo /\ RecorderUnset /\ Syncer = "nil"
   /\ call.toggle \in DOMAIN TestRepo.Toggles
   /\ ~IsDetail /\ MatchingKind) =>
    /\ call.out.value =
         IF call.fn = "NumberValue" /\ Configured(call.toggle).kind = "int"
           THEN FloatV(Configured(call.toggle).v)
           ELSE Configured(call.toggle)
    /\ incomingEvents = <<>>

\* C16, witness: NumberValue was called on the toggle configured with the
\* int 0, with a default other than 0.
C16_Witness ==
  /\ Called /\ Repo = TestRepo /\ RecorderUnset /\ Syncer = "nil"
  /\ call.fn = "NumberValue" /\ call.toggle = "toggle0"
  /\ call.def # FloatV(0)
  /\ call.out.value = FloatV(0)

\* C18 as claimed: a tick that fires while the network call of the previous
\* flush is outstanding is taken at once: the next flush starts without
\* waiting for that delivery.
C18_Original ==
  (loopPc = "post" /\ tickC = 1) => ENABLED LoopSelectTick

\* C18, amended: flushes do not overlap. A tick that fires while a delivery is
\* outstanding waits in the ticker's channel until doFlush has returned; at
\* most one drained batch, the last one, is awaiting its delivery, and the
\* deliveries are made in the order in which the batches were drained (none
\* is made when no request can be built for the events URL).
C18_FlushesSerialized ==
  /\ loopPc = "post" => ~ENABLED LoopSelectTick
  /\ loopPc = "post" => events = drained[Len(drained)]
  /\ IF NewRequestFails(eventsUrl)
       THEN posts = <<>>
       ELSE /\ Len(drained) - Len(posts) = IF loopPc = "post" THEN 1 ELSE 0
            /\ IsPrefix(posts, drained)

\* C18, witness: a delivery is outstanding after an earlier one, a tick has
\* fired meanwhile and an event is pending for the next flush.
C18_Witness ==
  /\ loopPc = "post"
  /\ Len(posts) >= 1
  /\ tickC = 1
  /\ incomingEvents # <<>>

\* What a pointer holds: nothing, or a value.
Held(p) == IF p.addr = 0 THEN <<"nil">> ELSE <<"value", p.val>>

\* The triple (toggle key, variation index value, version value) of an event
\* or of a counter listed under key.
TripleOf(key, index, version) == <<key, Held(index), Held(version)>>

\* The triples that occur in the batch.
BatchTriples ==
  {TripleOf(batch[i].Key, batch[i].Index, batch[i].Version) : i \in 1..Len(batch)}

\* The first event of the batch with triple t.
FirstOf(t) ==
  batch[CHOOSE i \in 1..Len(batch) :
          /\ TripleOf(batch[i].Key, batch[i].Index, batch[i].Version) = t
          /\ \A j \in 1..(i - 1) :
               TripleOf(batch[j].Key, batch[j].Index, batch[j].Version) # t]

\* The counters of the Access with triple t.
CountersWith(t) ==
  IF t[1] \in DOMAIN access.Counters
    THEN {c \in access.Counters[t[1]] : TripleOf(t[1], c.Index, c.Version) = t}
    ELSE {}

RECURSIVE SumCount(_)
SumCount(cs) ==
  IF cs = {} THEN 0
  ELSE LET c == CHOOSE x \in cs : TRUE IN c.Count + SumCount(cs \ {c})

\* C19: the Access built from a batch has exactly one counter for each triple
\* (toggle key, index value, version value) that occurs in the batch, its
\* value is the served value of the first event with that triple, and the
\* counts of all the counters add up to the number of events of the batch.
C19_OneCounterPerTriple ==
  access # NoAccess =>
    /\ \A t \in BatchTriples :
         /\ Cardinality(CountersWith(t)) = 1
         /\ \A c \in CountersWith(t) : c.Value = FirstOf(t).Value
    /\ SumCount(UNION {access.Counters[key] : key \in DOMAIN access.Counters})
         = Len(batch)

\* A Stop() called on a started recorder has returned.
StoppedStarted == \E s \in Returned : stopObs[s].started

\* C20: once a Stop() called on a started recorder has returned, the loop has
\* terminated, and from then on no batch is drained and no delivery is
\* attempted; the pending list only grows, so an event appended after the
\* swap of the final flush stays pending and is never delivered.
C20_NothingAfterStop ==
  /\ [](StoppedStarted => LoopEnded)
  /\ [][StoppedStarted =>
          /\ LoopEnded'
          /\ drained' = drained
          /\ posts' = posts
          /\ IsPrefix(incomingEvents, incomingEvents')]_vars

\* C20, witness: Stop() has returned on a started recorder, an event appended
\* after the final flush is pending, and the ticker has ticked since.
C20_Witness ==
  /\ StoppedStarted
  /\ loopPc = "done"
  /\ incomingEvents # <<>>
  /\ tickC = 1

\* The Stop calls that were made, and reached wg.Wait(), on a recorder on
\* which Start had not been called (lifecycle state Created).
StoppedCreated ==
  {s \in Stoppers : /\ stopPc[s] \notin {"idle", "closed"}
                    /\ ~stopObs[s].started
                    /\ ~stopObs[s].waitStarted}

\* The s-th Stop call reaches wg.Wait() in this step, on a recorder on which
\* Start has not been called.
StopsCreated(s) == stopPc[s] = "closed" /\ stopPc'[s] # "closed" /\ startCalls = 0

\* C22, as stated: a Stop() on a recorder that was never started returns at
\* once and flushes nothing, and the loop of a Start() called afterwards sees
\* the closed stop channel, flushes once and terminates without ever running
\* a periodic flush (it never takes the tick branch).
C22_Original ==
  /\ [](StoppedCreated # {} =>
          /\ StoppedCreated \subseteq Returned
          /\ loopBranch # "tick"
          /\ flushesAfterStop <= 1
          /\ (loopPc = "done" => flushesAfterStop = 1))
  /\ [][\A s \in Stoppers : StopsCreated(s) =>
          /\ stopPc'[s] = "returned"
          /\ UNCHANGED <<incomingEvents, drained, posts>>]_vars

\* C22, amended: a Stop() on a recorder that was never started, reaching its
\* wg.Wait() before any Start() is called, closes the stop channel, returns
\* at once and flushes nothing, so what is pending stays
\* pending. The loop of a Start() called afterwards finds the stop branch
\* ready at every select; with no tick buffered it is the only branch, and
\* once taken it is followed by one flush and the end of the loop. With a
\* tick buffered the select may take the tick branch first.
C22_StopBeforeStart ==
  /\ [](StoppedCreated # {} =>
          /\ StoppedCreated \subseteq Returned
          /\ \A s \in StoppedCreated : stopObs[s].dPosts = 0
          /\ stopChan = "closed"
          /\ (loopPc = "select" =>
                /\ ENABLED LoopSelectStop
                /\ (tickC = 0 => ~ENABLED LoopSelectTick))
          /\ (loopBranch = "stop" => loopPc # "select")
          /\ flushesAfterStop <= 1
          /\ (loopPc = "done" => flushesAfterStop = 1))
  /\ [][\A s \in Stoppers : StopsCreated(s) =>
          /\ stopPc'[s] = "returned"
          /\ UNCHANGED <<incomingEvents, drained, posts>>]_vars

\* C22, witness: the first Stop() was made before any Start() with one event
\* pending and has returned; the loop of the later Start() has ended after
\* one flush on the stop branch, which delivered that event.
C22_Witness ==
  /\ 1 \in StoppedCreated
  /\ stopObs[1].pending = 1
  /\ stopPc[1] = "returned"
  /\ loopPc = "done"
  /\ flushesAfterStop = 1
  /\ Len(posts) = 1
  /\ posts[1] = finalBatch

\* C22, the case left out of the statement: the first Stop() was made before
\* any Start(), and the loop of the later Start() is in a periodic flush.
C22_TickFirst ==
  /\ 1 \in StoppedCreated
  /\ loopBranch = "tick"
  /\ loopPc = "post"

\* The loop of a started recorder has been launched.
LoopLaunched == loopPc # "none"

\* The swap of the final flush (the doFlush of the stop branch) has been made.
FinalSwapDone ==
  loopBranch = "stop" /\ loopPc \in {"post", "wgdone", "release", "done"}

\* The event of the r-th RecordAccess call is in the pending list.
Pending(r) == NewAccessEvent(r) \in Range(incomingEvents)

\* The event of the r-th RecordAccess call was part of a delivery attempt.
Attempted(r) == \E i \in 1..Len(posts) : NewAccessEvent(r) \in Range(posts[i])

\* The RecordAccess calls of a run of at most MaxLiveCalls calls on which
\* Start is called.
LiveRecorders == 1..(MaxLiveCalls - 1)

\* C21 as claimed: on a started recorder, with the ticker and the loop
\* scheduled fairly and every delivery attempt returning, an event that
\* RecordAccess appended before the swap of the final flush is eventually
\* part of a delivery attempt, made by a periodic flush or by the final flush.
C21_Original ==
  \A r \in LiveRecorders :
    (LoopLaunched /\ Pending(r) /\ ~FinalSwapDone) ~> Attempted(r)

\* C21, amended: the same, on a recorder for whose events URL a request can
\* be built. (For a URL that http.NewRequest refuses, every drained batch is
\* dropped with no delivery attempt.)
C21_EventuallyAttempted ==
  \A r \in LiveRecorders :
    (~NewRequestFails(eventsUrl) /\ LoopLaunched /\ Pending(r) /\ ~FinalSwapDone)
      ~> Attempted(r)

\* C21, witness: an event appended on the started recorder went out with a
\* periodic flush; Stop() was called afterwards, and the final flush found
\* nothing left to drain.
C21_Witness ==
  /\ Len(appended) = 1
  /\ posts = <<appended>>
  /\ flushesAfterStop = 1
  /\ finalBatch = <<>>
  /\ loopPc = "done"

\* The Detail accessor of the kind of a Value accessor.
DetailOf(fn) ==
  CASE fn = "BoolValue" -> "BoolDetail"
    [] fn = "StrValue" -> "StrDetail"
    [] fn = "NumberValue" -> "NumberDetail"
    [] OTHER -> "JsonDetail"

\* C23: for each of the four kinds, the Value accessor returns, for the same
\* repository, toggle key, user and default, the Value field of what the
\* Detail accessor of that kind returns, also when the resolved variation is
\* an int.
C23_ValueEqualsDetail ==
  (Called /\ ~IsDetail) =>
    call.out.value =
      Invoke(DetailOf(call.fn), call.toggle, call.user, call.def, FreshCell, Now).value
====
